---- MODULE Spec2Model ----
(***************************************************************************)
(* Model of the financial-engineering package:                             *)
(*   src/data/fetcher.py     get_stock_data, get_korean_stock_data,        *)
(*                           get_crypto_data                               *)
(*   src/analysis/returns.py calculate_returns, calculate_cumulative_      *)
(*                           returns, calculate_annualized_return,         *)
(*                           calculate_volatility, calculate_sharpe_ratio, *)
(*                           calculate_max_drawdown, performance_summary   *)
(*                                                                         *)
(* One caller invokes one function at a time.  The fetcher functions run   *)
(* as frames on a call stack around the blocking provider call             *)
(* (yf.download), whose answer is nondeterministic: a table or an error.   *)
(* The analytics functions are pure; each runs in one step, except         *)
(* performance_summary, whose local `returns` is visible between its two   *)
(* steps.                                                                  *)
(*                                                                         *)
(* Numbers are exact rationals [k, n, d]; NaN is a value of its own;       *)
(* logarithms, fractional powers and square roots stay symbolic.  IEEE     *)
(* rounding is not modelled.                                               *)
(***************************************************************************)
EXTENDS Integers, Sequences, FiniteSets, TLC

VARIABLES
    stack,      \* call stack, innermost frame last; <<>> when no call runs
    pc,         \* "idle" | "running" | "downloading" | "assigned" | "returning" |
                \* "unwinding" | "returned" | "raised"
    call,       \* the caller's call: [fn, args]
    params,     \* parameters get_stock_data was entered with
    data,       \* local `data` of get_stock_data
    requests,   \* provider requests issued during the current call, in order
    answer,     \* what the provider answered to the last request
    returns,    \* local `returns` of performance_summary
    ret         \* what the caller received: a value or an exception

vars == <<stack, pc, call, params, data, requests, answer, returns, ret>>

-----------------------------------------------------------------------------
(* Bounds of the model *)

MaxLen == 3            \* longest price / return series
MaxTickerLen == 3      \* longest ticker string

-----------------------------------------------------------------------------
(* Python values *)

None == "<None>"       \* Python's None; no date string equals it
Nothing == [kind |-> "nothing"]
Value(v) == [kind |-> "value", v |-> v]
Raise(exc, msg) == [kind |-> "raise", exc |-> exc, msg |-> msg]

\* truthiness of an Optional[str]: None and "" are falsy
Truthy(s) == s # None /\ s # ""

-----------------------------------------------------------------------------
(* Numbers *)

Abs(i) == IF i < 0 THEN -i ELSE i

RECURSIVE GCD(_, _)
GCD(a, b) == IF b = 0 THEN a ELSE GCD(b, a % b)

NaN == [k |-> "nan", n |-> 0, d |-> 0]
IsNaN(x) == x.k = "nan"

\* the rational n/d in lowest terms, d > 0
Rat(n, d) ==
    LET g == GCD(Abs(n), Abs(d))
        s == IF d < 0 THEN -1 ELSE 1
    IN  [k |-> "rat", n |-> s * (n \div g), d |-> s * (d \div g)]

Num(i) == Rat(i, 1)
Zero == Num(0)
One == Num(1)

\* float arithmetic on non-zero denominators; NaN is contagious
Add(x, y) == IF IsNaN(x) \/ IsNaN(y) THEN NaN ELSE Rat(x.n * y.d + y.n * x.d, x.d * y.d)
Sub(x, y) == IF IsNaN(x) \/ IsNaN(y) THEN NaN ELSE Rat(x.n * y.d - y.n * x.d, x.d * y.d)
Mul(x, y) == IF IsNaN(x) \/ IsNaN(y) THEN NaN ELSE Rat(x.n * y.n, x.d * y.d)
Div(x, y) == IF IsNaN(x) \/ IsNaN(y) THEN NaN ELSE Rat(x.n * y.d, x.d * y.n)
Less(x, y) == x.n * y.d < y.n * x.d

\* np.log of a positive number: exact at 1, symbolic elsewhere
np_log(x) ==
    IF IsNaN(x) THEN NaN
    ELSE IF x = One THEN Zero
    ELSE [k |-> "ln", n |-> x.n, d |-> x.d]

-----------------------------------------------------------------------------
(* pandas Series, as sequences *)

Series(prices) == [i \in 1..Len(prices) |-> Num(prices[i])]


\* variant: the first entry is filled with the first value instead of NaN
shift_backfilled(s) == [i \in 1..Len(s) |-> IF i = 1 THEN s[1] ELSE s[i - 1]]

\* Series.shift(1): every value moves one place down, the first is NaN
shift(s) == [i \in 1..Len(s) |-> IF i = 1 THEN NaN ELSE s[i - 1]]


\* variant: the change is taken relative to the current value
pct_change_of_current(s) == [i \in 1..Len(s) |-> Sub(One, Div(shift(s)[i], s[i]))]

\* Series.pct_change(): s / s.shift(1) - 1
pct_change(s) == [i \in 1..Len(s) |-> Sub(Div(s[i], shift(s)[i]), One)]

\* Series.dropna()
dropna(s) == SelectSeq(s, LAMBDA x : ~IsNaN(x))

\* product of the non-NaN values of s[1..k] (skipna); 1 when there are none
RECURSIVE PrefixProd(_, _)
PrefixProd(s, k) ==
    IF k = 0 THEN One
    ELSE IF IsNaN(s[k]) THEN PrefixProd(s, k - 1)
    ELSE Mul(PrefixProd(s, k - 1), s[k])


\* variant: running sum in place of the running product
RECURSIVE PrefixSum(_, _)
PrefixSum(s, k) ==
    IF k = 0 THEN Zero
    ELSE IF IsNaN(s[k]) THEN PrefixSum(s, k - 1)
    ELSE Add(PrefixSum(s, k - 1), s[k])

cumsum(s) == [i \in 1..Len(s) |-> IF IsNaN(s[i]) THEN NaN ELSE PrefixSum(s, i)]

\* Series.cumprod(): running product, a NaN entry stays NaN and is skipped
cumprod(s) == [i \in 1..Len(s) |-> IF IsNaN(s[i]) THEN NaN ELSE PrefixProd(s, i)]

\* Series.prod()
prod(s) == PrefixProd(s, Len(s))

\* Series.cummax(): running maximum
RECURSIVE PrefixMax(_, _)
PrefixMax(s, k) ==
    IF k = 1 THEN s[1]
    ELSE LET m == PrefixMax(s, k - 1) IN IF Less(m, s[k]) THEN s[k] ELSE m


\* variant: the maximum of the whole series at every index
overall_max(s) == [i \in 1..Len(s) |-> PrefixMax(s, Len(s))]

cummax(s) == [i \in 1..Len(s) |-> PrefixMax(s, i)]

\* Series.min(): NaN for an empty series
RECURSIVE PrefixMin(_, _)
PrefixMin(s, k) ==
    IF k = 1 THEN s[1]
    ELSE LET m == PrefixMin(s, k - 1) IN IF Less(s[k], m) THEN s[k] ELSE m

min(s) == IF Len(s) = 0 THEN NaN ELSE PrefixMin(s, Len(s))

-----------------------------------------------------------------------------
(* src/analysis/returns.py *)

DefaultPeriodsPerYear == 252


\* variant: an unknown method falls back to simple returns
calculate_returns_lenient(prices, method) ==
    IF method = "log" THEN
        LET s == Series(prices)
        IN  Value([i \in 1..Len(s) |-> np_log(Div(s[i], shift(s)[i]))])
    ELSE
        Value(pct_change(Series(prices)))

calculate_returns(prices, method) ==
    IF method = "simple" THEN
        Value(pct_change(Series(prices)))
    ELSE IF method = "log" THEN
        LET s == Series(prices)
        IN  Value([i \in 1..Len(s) |-> np_log(Div(s[i], shift(s)[i]))])
    ELSE
        Raise("ValueError", "Unknown method: " \o method)

calculate_cumulative_returns(rs) ==
    LET grown == cumprod([i \in 1..Len(rs) |-> Add(One, rs[i])])
    IN  Value([i \in 1..Len(rs) |-> Sub(grown[i], One)])


\* variant: an empty series is guarded and annualizes to NaN
calculate_annualized_return_guarded(rs, periods_per_year) ==
    LET total_return == Sub(prod([i \in 1..Len(rs) |-> Add(One, rs[i])]), One)
    IN  IF Len(rs) = 0 THEN Value(NaN)
        ELSE IF periods_per_year = 0 THEN Raise("ZeroDivisionError", "division by zero")
        ELSE Value([k |-> "pow-1", base |-> Add(One, total_return),
                    exp |-> Div(One, Rat(Len(rs), periods_per_year))])

\* (1 + total_return) ** (1 / years) - 1; the power stays symbolic
calculate_annualized_return(rs, periods_per_year) ==
    LET total_return == Sub(prod([i \in 1..Len(rs) |-> Add(One, rs[i])]), One)
        n_periods == Len(rs)
    IN  IF periods_per_year = 0 THEN Raise("ZeroDivisionError", "division by zero")
        ELSE LET years == Rat(n_periods, periods_per_year)
             IN  IF years = Zero THEN Raise("ZeroDivisionError", "float division by zero")
                 ELSE Value([k |-> "pow-1", base |-> Add(One, total_return),
                             exp |-> Div(One, years)])

\* returns.std() * np.sqrt(periods_per_year), symbolic
calculate_volatility(rs, periods_per_year) ==
    Value([k |-> "std*sqrt", sample |-> rs, periods |-> periods_per_year])

\* (ann_return - risk_free_rate) / ann_vol, symbolic; the annualization may raise
calculate_sharpe_ratio(rs, risk_free_rate, periods_per_year) ==
    LET ann_return == calculate_annualized_return(rs, periods_per_year)
        ann_vol == calculate_volatility(rs, periods_per_year)
    IN  IF ann_return.kind = "raise" THEN ann_return
        ELSE Value([k |-> "sharpe", excess_of |-> ann_return.v,
                    over |-> risk_free_rate, vol |-> ann_vol.v])

calculate_max_drawdown(prices) ==
    LET s == Series(prices)
        cm == cummax(s)
        drawdown == [i \in 1..Len(s) |-> Div(Sub(s[i], cm[i]), cm[i])]
    IN  Value(min(drawdown))

\* line 171: calculate_returns(prices).dropna()
summary_returns(prices) == dropna(calculate_returns(prices, "simple").v)

\* lines 173-181: the entries are evaluated in order, the first failure wins.
\* The entries are kept as numbers; the report formats each to 2 decimals.
summary_report(prices, rs, risk_free_rate) ==
    IF Len(prices) = 0 THEN
        Raise("IndexError", "single positional indexer is out-of-bounds")
    ELSE
        LET s == Series(prices)
            total == Sub(Div(s[Len(s)], s[1]), One)
            ann == calculate_annualized_return(rs, DefaultPeriodsPerYear)
            vol == calculate_volatility(rs, DefaultPeriodsPerYear)
            sharpe == calculate_sharpe_ratio(rs, risk_free_rate, DefaultPeriodsPerYear)
            mdd == calculate_max_drawdown(prices)
        IN  IF ann.kind = "raise" THEN ann
            ELSE IF sharpe.kind = "raise" THEN sharpe
            ELSE Value([total_return |-> total, annualized_return |-> ann.v,
                        volatility |-> vol.v, sharpe_ratio |-> sharpe.v,
                        max_drawdown |-> mdd.v])

-----------------------------------------------------------------------------
(* src/data/fetcher.py *)

Digits == {"0", "1", "2", "3", "4", "5", "6", "7", "8", "9"}
KS == <<".", "K", "S">>

\* str.isdigit(): at least one character, and all of them digits
isdigit(s) == Len(s) > 0 /\ \A i \in 1..Len(s) : s[i] \in Digits


\* variant: only the first character is tested
korean_ticker_by_first(ticker) ==
    IF Len(ticker) > 0 /\ ticker[1] \in Digits THEN ticker \o KS ELSE ticker

\* lines 71-72: a ticker of digits only is taken for a KOSPI code
korean_ticker(ticker) == IF isdigit(ticker) THEN ticker \o KS ELSE ticker

\* line 74: get_stock_data(ticker, start=start, end=end, period=period)
korean_forward(a) ==
    [tickers |-> korean_ticker(a.tickers), start |-> a.start,
     end |-> a.end, period |-> a.period]


\* variant: the symbols are rewritten to pair style
crypto_forward_paired(a) ==
    [tickers |-> a.tickers \o <<"-", "U", "S", "D">>, start |-> a.start,
     end |-> a.end, period |-> a.period]

\* line 95: get_stock_data(symbols, start=start, end=end, period=period)
crypto_forward(a) ==
    [tickers |-> a.tickers, start |-> a.start, end |-> a.end, period |-> a.period]


\* variant: one of start and end is enough for a date range
download_request_either(p) ==
    IF Truthy(p.start) \/ Truthy(p.end) THEN
        [tickers |-> p.tickers, start |-> p.start, end |-> p.end, period |-> None]
    ELSE
        [tickers |-> p.tickers, start |-> None, end |-> None, period |-> p.period]

\* lines 42-45: the keyword arguments yf.download is called with
download_request(p) ==
    IF Truthy(p.start) /\ Truthy(p.end) THEN
        [tickers |-> p.tickers, start |-> p.start, end |-> p.end, period |-> None]
    ELSE
        [tickers |-> p.tickers, start |-> None, end |-> None, period |-> p.period]

-----------------------------------------------------------------------------
(* Inputs *)

PriceLevels == {80, 100, 110, 121}
PriceSeries == UNION {[1..n -> PriceLevels] : n \in 0..MaxLen}

Rates == {Rat(1, 10), Rat(-1, 10), Zero, NaN}
ReturnSeries == UNION {[1..n -> Rates] : n \in 0..MaxLen}

Methods == {"simple", "log", "bogus", ""}
PeriodsPerYear == {0, 12, DefaultPeriodsPerYear}
RiskFreeRates == {Rat(2, 100), Zero}

TickerChars == {"5", ".", "K"}
Tickers == UNION {[1..n -> TickerChars] : n \in 0..MaxTickerLen}
Starts == {None, "", "2023-01-01"}
Ends == {None, "", "2023-12-31"}
Periods == {"1y", "6mo"}
FetchArgs == [tickers : Tickers, start : Starts, end : Ends, period : Periods]

Tables == {"ohlcv", "empty"}
ProviderErrors == {"ConnectionError"}

Fetchers == {"get_stock_data", "get_korean_stock_data", "get_crypto_data"}

-----------------------------------------------------------------------------
(* State machine *)

Unset == "<unset>"
NoCall == [fn |-> "none", args |-> <<>>]

Init ==
    /\ stack = <<>>
    /\ pc = "idle"
    /\ call = NoCall
    /\ params = Nothing
    /\ data = Unset
    /\ requests = <<>>
    /\ answer = Nothing
    /\ returns = <<>>
    /\ ret = Nothing

Top == stack[Len(stack)]
Pop == SubSeq(stack, 1, Len(stack) - 1)

\* a pure function called and finished in one step
Finish(fn, args, result) ==
    /\ pc = "idle"
    /\ call' = [fn |-> fn, args |-> args]
    /\ ret' = result
    /\ pc' = IF result.kind = "raise" THEN "raised" ELSE "returned"
    /\ UNCHANGED <<stack, params, data, requests, answer, returns>>

CalculateReturns(prices, method) ==
    Finish("calculate_returns", [prices |-> prices, method |-> method],
           calculate_returns(prices, method))

CalculateCumulativeReturns(rs) ==
    Finish("calculate_cumulative_returns", [returns |-> rs],
           calculate_cumulative_returns(rs))

CalculateAnnualizedReturn(rs, ppy) ==
    Finish("calculate_annualized_return", [returns |-> rs, periods_per_year |-> ppy],
           calculate_annualized_return(rs, ppy))

CalculateMaxDrawdown(prices) ==
    Finish("calculate_max_drawdown", [prices |-> prices],
           calculate_max_drawdown(prices))

\* performance_summary, line 171
SummaryEnter(prices, rf) ==
    /\ pc = "idle"
    /\ call' = [fn |-> "performance_summary",
                args |-> [prices |-> prices, risk_free_rate |-> rf]]
    /\ stack' = <<"performance_summary">>
    /\ returns' = summary_returns(prices)
    /\ pc' = "running"
    /\ UNCHANGED <<params, data, requests, answer, ret>>

\* performance_summary, lines 173-181
SummaryBuild ==
    /\ pc = "running"
    /\ Top = "performance_summary"
    /\ ret' = summary_report(call.args.prices, returns, call.args.risk_free_rate)
    /\ stack' = Pop
    /\ pc' = IF ret'.kind = "raise" THEN "raised" ELSE "returned"
    /\ UNCHANGED <<call, params, data, requests, answer, returns>>

\* the caller enters get_stock_data
CallStock(a) ==
    /\ pc = "idle"
    /\ call' = [fn |-> "get_stock_data", args |-> a]
    /\ stack' = <<"get_stock_data">>
    /\ params' = a
    /\ pc' = "running"
    /\ UNCHANGED <<data, requests, answer, returns, ret>>

\* the caller enters one of the wrappers
CallWrapper(fn, a) ==
    /\ pc = "idle"
    /\ call' = [fn |-> fn, args |-> a]
    /\ stack' = <<fn>>
    /\ pc' = "running"
    /\ UNCHANGED <<params, data, requests, answer, returns, ret>>

\* get_korean_stock_data, lines 71-74, up to the entry of get_stock_data
KoreanBody ==
    /\ pc = "running"
    /\ Top = "get_korean_stock_data"
    /\ params' = korean_forward(call.args)
    /\ stack' = Append(stack, "get_stock_data")
    /\ UNCHANGED <<pc, call, data, requests, answer, returns, ret>>

\* get_crypto_data, line 95, up to the entry of get_stock_data
CryptoBody ==
    /\ pc = "running"
    /\ Top = "get_crypto_data"
    /\ params' = crypto_forward(call.args)
    /\ stack' = Append(stack, "get_stock_data")
    /\ UNCHANGED <<pc, call, data, requests, answer, returns, ret>>

\* get_stock_data, lines 42-45: the call of yf.download, which blocks
StockBody ==
    /\ pc = "running"
    /\ Top = "get_stock_data"
    /\ requests' = Append(requests, download_request(params))
    /\ pc' = "downloading"
    /\ UNCHANGED <<stack, call, params, data, answer, returns, ret>>

\* yf.download returns a table, which lines 43/45 assign to `data`
ProviderReturns(table) ==
    /\ pc = "downloading"
    /\ answer' = Value(table)
    /\ data' = table
    /\ pc' = "assigned"
    /\ UNCHANGED <<stack, call, params, requests, returns, ret>>


\* variant: the first provider error is swallowed and the download tried again
ProviderRaisesRetry(err) ==
    /\ pc = "downloading"
    /\ answer' = Raise(err, "provider")
    /\ IF Len(requests) < 2
          THEN pc' = "running" /\ ret' = ret
          ELSE pc' = "unwinding" /\ ret' = Raise(err, "provider")
    /\ UNCHANGED <<stack, call, params, data, requests, returns>>

\* yf.download raises; no frame of the module has a handler
ProviderRaises(err) ==
    /\ pc = "downloading"
    /\ answer' = Raise(err, "provider")
    /\ ret' = Raise(err, "provider")
    /\ pc' = "unwinding"
    /\ UNCHANGED <<stack, call, params, data, requests, returns>>

\* get_stock_data, line 47: return data
StockReturn ==
    /\ pc = "assigned"
    /\ Top = "get_stock_data"
    /\ ret' = Value(data)
    /\ stack' = Pop
    /\ pc' = IF stack' = <<>> THEN "returned" ELSE "returning"
    /\ UNCHANGED <<call, params, data, requests, answer, returns>>

\* lines 74 and 95: the wrapper returns what get_stock_data returned
WrapperReturn ==
    /\ pc = "returning"
    /\ Top \in {"get_korean_stock_data", "get_crypto_data"}
    /\ stack' = Pop
    /\ pc' = "returned"
    /\ UNCHANGED <<call, params, data, requests, answer, returns, ret>>

\* the exception leaves the innermost frame
Unwind ==
    /\ pc = "unwinding"
    /\ stack # <<>>
    /\ stack' = Pop
    /\ pc' = IF stack' = <<>> THEN "raised" ELSE "unwinding"
    /\ UNCHANGED <<call, params, data, requests, answer, returns, ret>>

\* the caller has its result; nothing of the call is kept
Reset ==
    /\ pc \in {"returned", "raised"}
    /\ stack' = <<>>
    /\ pc' = "idle"
    /\ call' = NoCall
    /\ params' = Nothing
    /\ data' = Unset
    /\ requests' = <<>>
    /\ answer' = Nothing
    /\ returns' = <<>>
    /\ ret' = Nothing

Next ==
    \/ \E prices \in PriceSeries, method \in Methods : CalculateReturns(prices, method)
    \/ \E rs \in ReturnSeries : CalculateCumulativeReturns(rs)
    \/ \E rs \in ReturnSeries, ppy \in PeriodsPerYear : CalculateAnnualizedReturn(rs, ppy)
    \/ \E prices \in PriceSeries : CalculateMaxDrawdown(prices)
    \/ \E prices \in PriceSeries, rf \in RiskFreeRates : SummaryEnter(prices, rf)
    \/ SummaryBuild
    \/ \E a \in FetchArgs : CallStock(a)
    \/ \E a \in FetchArgs : CallWrapper("get_korean_stock_data", a)
    \/ \E a \in FetchArgs : CallWrapper("get_crypto_data", a)
    \/ KoreanBody
    \/ CryptoBody
    \/ StockBody
    \/ \E table \in Tables : ProviderReturns(table)
    \/ \E err \in ProviderErrors : ProviderRaises(err)
    \/ StockReturn
    \/ WrapperReturn
    \/ Unwind
    \/ Reset

Spec == Init /\ [][Next]_vars

-----------------------------------------------------------------------------
(* Properties *)

Finished == pc \in {"returned", "raised"}
Called(fn) == call.fn = fn

DecimalDigits == {"0", "1", "2", "3", "4", "5", "6", "7", "8", "9"}
OnlyDigits(t) == t # <<>> /\ \A i \in DOMAIN t : t[i] \in DecimalDigits

\* C1: get_korean_stock_data enters get_stock_data with ".KS" appended to a ticker
\* made of digits only and with every other ticker as it is; start, end and
\* period are passed on as given.
C1_KoreanForward ==
    (Called("get_korean_stock_data") /\ params # Nothing) =>
        LET a == call.args IN
        /\ params.tickers = IF OnlyDigits(a.tickers)
                               THEN a.tickers \o <<".", "K", "S">>
                               ELSE a.tickers
        /\ params.start = a.start
        /\ params.end = a.end
        /\ params.period = a.period

C1_Witness ==
    /\ Called("get_korean_stock_data")
    /\ pc = "returned"
    /\ call.args.tickers = <<"5", "5">>
    /\ params.tickers = <<"5", "5", ".", "K", "S">>
    /\ requests[1].tickers = <<"5", "5", ".", "K", "S">>

RangeRequest(r, p) ==
    r.start = p.start /\ r.end = p.end /\ r.period = None
PeriodRequest(r, p) ==
    r.period = p.period /\ r.start = None /\ r.end = None

\* C2 as stated: get_stock_data requests the date range exactly when start and
\* end are both provided (not None), the trailing period otherwise.
C2_Original ==
    (params # Nothing /\ requests # <<>>) =>
        IF params.start # None /\ params.end # None
        THEN RangeRequest(requests[1], params)
        ELSE PeriodRequest(requests[1], params)

\* C2 (amended): get_stock_data requests the date range exactly when start and
\* end are both provided and non-empty; otherwise, an empty string included,
\* it requests the trailing period.
C2_RangeIffBothNonEmpty ==
    (params # Nothing /\ requests # <<>>) =>
        /\ requests[1].tickers = params.tickers
        /\ IF params.start \notin {None, ""} /\ params.end \notin {None, ""}
           THEN RangeRequest(requests[1], params)
           ELSE PeriodRequest(requests[1], params)

C2_Witness ==
    /\ Called("get_stock_data")
    /\ pc = "returned"
    /\ call.args.start = "2023-01-01"
    /\ call.args.end = None
    /\ requests[1].period = call.args.period
    /\ requests[1].start = None

\* C3: calculate_returns raises ValueError naming the method for every method
\* other than "simple" and "log", and returns a series for those two.
C3_UnknownMethodRaises ==
    (Called("calculate_returns") /\ Finished) =>
        IF call.args.method \in {"simple", "log"}
        THEN pc = "returned" /\ ret.kind = "value"
        ELSE /\ pc = "raised"
             /\ ret.kind = "raise"
             /\ ret.exc = "ValueError"
             /\ ret.msg = "Unknown method: " \o call.args.method

C3_Witness ==
    /\ Called("calculate_returns")
    /\ pc = "raised"
    /\ call.args.method = "bogus"
    /\ ret.msg = "Unknown method: bogus"

\* C4 as stated, on the non-empty price series: every return series is one
\* element shorter than the price series it was produced from.
C4_Original ==
    /\ (Called("calculate_returns") /\ pc = "returned" /\ call.args.prices # <<>>) =>
           Len(ret.v) = Len(call.args.prices) - 1
    /\ (Called("performance_summary") /\ pc # "idle" /\ call.args.prices # <<>>) =>
           Len(returns) = Len(call.args.prices) - 1

\* C4 (amended): calculate_returns returns a series as long as the price series
\* whose first entry is undefined (NaN) and whose other entries are defined; it
\* is performance_summary that drops the undefined entry, so the series it
\* works on is one shorter than a non-empty price series (empty for an empty one).
C4_FirstUndefinedThenDropped ==
    /\ (Called("calculate_returns") /\ pc = "returned") =>
           /\ Len(ret.v) = Len(call.args.prices)
           /\ \A i \in DOMAIN ret.v : IsNaN(ret.v[i]) <=> i = 1
    /\ (Called("performance_summary") /\ pc # "idle") =>
           /\ Len(returns) = IF call.args.prices = <<>> THEN 0
                             ELSE Len(call.args.prices) - 1
           /\ \A i \in DOMAIN returns : ~IsNaN(returns[i])

C4_Witness ==
    /\ Called("performance_summary")
    /\ pc = "running"
    /\ call.args.prices = <<100, 110, 121>>
    /\ returns = <<Rat(1, 10), Rat(1, 10)>>

NonDecreasing(P) == \A i \in 1..(Len(P) - 1) : P[i] <= P[i + 1]
RunningMax(P, t) == CHOOSE m \in {P[j] : j \in 1..t} : \A j \in 1..t : P[j] <= m
Drawdown(P, t) == Rat(P[t] - RunningMax(P, t), RunningMax(P, t))
Deepest(P) ==
    CHOOSE x \in {Drawdown(P, t) : t \in 1..Len(P)} :
        \A t \in 1..Len(P) : x.n * Drawdown(P, t).d <= Drawdown(P, t).n * x.d

\* C5: for a non-empty series of positive prices calculate_max_drawdown returns
\* the least (P[t] - M[t]) / M[t], M[t] the maximum of P[0..t]; it is <= 0, and
\* 0 exactly when the prices never fall.
C5_MaxDrawdown ==
    (Called("calculate_max_drawdown") /\ Finished /\ call.args.prices # <<>>) =>
        /\ pc = "returned"
        /\ ret.v = Deepest(call.args.prices)
        /\ ret.v.n <= 0
        /\ ret.v = Rat(0, 1) <=> NonDecreasing(call.args.prices)

C5_Witness ==
    /\ Called("calculate_max_drawdown")
    /\ pc = "returned"
    /\ call.args.prices = <<100, 80, 100>>
    /\ ret.v = Rat(-1, 5)

RECURSIVE Compounded(_, _)
Compounded(r, k) ==
    IF k = 0 THEN [n |-> 1, d |-> 1]
    ELSE LET c == Compounded(r, k - 1)
         IN  [n |-> c.n * (r[k].d + r[k].n), d |-> c.d * r[k].d]

\* C6: calculate_cumulative_returns returns a series as long as its input; for
\* an input without undefined entries the element at k is the product of the
\* (1 + r[i]) up to k, minus 1.
C6_CumulativeReturns ==
    (Called("calculate_cumulative_returns") /\ Finished) =>
        LET r == call.args.returns IN
        /\ pc = "returned"
        /\ Len(ret.v) = Len(r)
        /\ (\A i \in DOMAIN r : ~IsNaN(r[i])) =>
               \A k \in DOMAIN r :
                   LET c == Compounded(r, k)
                   IN  ret.v[k] = Rat(c.n - c.d, c.d)

C6_Witness ==
    /\ Called("calculate_cumulative_returns")
    /\ pc = "returned"
    /\ call.args.returns = <<Rat(1, 10), Rat(-1, 10)>>
    /\ ret.v = <<Rat(1, 10), Rat(-1, 100)>>

\* C7: for positive prices the simple return at every index i > 0 is
\* (P[i] - P[i-1]) / P[i-1]; every simple return of a constant series is 0.
C7_SimpleReturns ==
    (Called("calculate_returns") /\ pc = "returned" /\ call.args.method = "simple") =>
        LET P == call.args.prices IN
        /\ \A i \in 2..Len(P) : ret.v[i] = Rat(P[i] - P[i - 1], P[i - 1])
        /\ (\A i \in DOMAIN P : P[i] = P[1]) =>
               \A i \in 2..Len(P) : ret.v[i] = Rat(0, 1)

C7_Witness ==
    /\ Called("calculate_returns")
    /\ pc = "returned"
    /\ call.args.method = "simple"
    /\ call.args.prices = <<100, 110, 121>>
    /\ ret.v[2] = Rat(1, 10)
    /\ ret.v[3] = Rat(1, 10)

\* C8: a call of a fetch function makes exactly one provider request; the
\* provider's error reaches the caller unchanged, with no second request and no
\* substitute result, and the provider's table is returned as it is.
C8_OneRequestNoRetry ==
    /\ Len(requests) <= 1
    /\ (call.fn \in Fetchers /\ Finished) =>
           /\ Len(requests) = 1
           /\ ret = answer
           /\ pc = "raised" <=> answer.kind = "raise"

C8_Witness ==
    /\ Called("get_korean_stock_data")
    /\ pc = "raised"
    /\ Len(requests) = 1
    /\ ret = Raise("ConnectionError", "provider")

\* C9: calculate_annualized_return raises ZeroDivisionError on an empty return
\* series, whatever periods_per_year is, and yields no value; performance_summary
\* gets there on a price series of one element, whose return series is empty.
C9_EmptySeriesDividesByZero ==
    /\ (Called("calculate_annualized_return") /\ Finished
            /\ call.args.returns = <<>>) =>
           pc = "raised" /\ ret.kind = "raise" /\ ret.exc = "ZeroDivisionError"
    /\ (Called("performance_summary") /\ Len(call.args.prices) = 1) =>
           /\ returns = <<>>
           /\ Finished => (pc = "raised" /\ ret.kind = "raise"
                               /\ ret.exc = "ZeroDivisionError")

C9_Witness ==
    /\ Called("performance_summary")
    /\ pc = "raised"
    /\ call.args.prices = <<100>>
    /\ returns = <<>>
    /\ ret.exc = "ZeroDivisionError"

\* C10: get_crypto_data enters get_stock_data with its own four arguments, so
\* it issues the request get_stock_data issues for them and returns what
\* get_stock_data returns: the provider's answer.
C10_CryptoPassthrough ==
    Called("get_crypto_data") =>
        /\ params # Nothing => params = call.args
        /\ requests # <<>> => requests = <<download_request(call.args)>>
        /\ Finished => ret = answer

C10_Witness ==
    /\ Called("get_crypto_data")
    /\ pc = "returned"
    /\ call.args.tickers = <<"K", ".", "5">>
    /\ requests[1].tickers = <<"K", ".", "5">>
    /\ ret = Value("ohlcv")

====
